---- MODULE Spec2Model ----
(***************************************************************************)
(* The scheduling / retention core of backup-scheduler: BackupScheduler    *)
(* (constructor, cycle, destroy) in its two shipped variants, driven by a  *)
(* recurring timer and by manual cycle() calls, against an arbitrary       *)
(* backend (list / create / delete) and Node's EventEmitter 'error'        *)
(* channel.                                                                *)
(*                                                                         *)
(* JavaScript runs one callback to completion: everything between two      *)
(* `await`s is one atomic action.  A cycle that passed the entry guard is  *)
(* suspended at `await list()`, `await create()` or `await delete()`; the  *)
(* backend settles each call with an outcome drawn from a bounded set.     *)
(***************************************************************************)
EXTENDS Integers, Sequences, FiniteSets, TLC

\* ---- bounds of the model ------------------------------------------------
MaxLimit == 3
MaxLen == 3
MaxTime == 2
MaxCalls == 2
MaxListeners == 1
\* Most entries of a bundled backend's store, and objects per S3 page.
MaxStore == 3
PageSize == 2
\* Most artifacts the faithful backend ever holds.
MaxArtifacts == 4

\* The two BackupScheduler sources of the repository: in "create_void"
\* create returns nothing and list may return false; in "create_Backup"
\* create must return a Backup and list must return an array.
Variants == {"create_void", "create_Backup"}
Limits == 1..MaxLimit
Times == 1..MaxTime
Calls == 1..MaxCalls

\* ---- values ---------------------------------------------------------------
\* new Backup(id, created_at)
Backup(id, created_at) == [kind |-> "Backup", id |-> id, created_at |-> created_at]
\* Values that are not Backup instances.
Null == [kind |-> "null", id |-> 0, created_at |-> 0]
Junk == [kind |-> "object", id |-> 0, created_at |-> 0]
Undefined == [kind |-> "undefined", id |-> 0, created_at |-> 0]

\* backup instanceof Backup
IsBackup(x) == x.kind = "Backup"
\* JavaScript truthiness of a value
Truthy(x) == x.kind \notin {"null", "undefined"}

Min(S) == CHOOSE x \in S : \A y \in S : x <= y
Range(s) == {s[k] : k \in 1..Len(s)}

\* Array.isArray(list)
IsArray(result) == result.kind = "array"

\* ---- what a backend's list() can settle with -------------------------------
\* Arrays name their k-th Backup k: ids are opaque and distinct, so an
\* array of n Backups is, up to renaming, <<Backup(1,t1), ..., Backup(n,tn)>>
\* with arbitrary timestamps.  A slot may also hold a non-Backup value.
Elements(k) == {Backup(k, t) : t \in Times} \cup {Null, Junk}
Arrays == UNION {{a \in [1..n -> UNION {Elements(k) : k \in 1..n}] :
                     \A k \in 1..n : a[k] \in Elements(k)} : n \in 0..MaxLen}
ListResults ==
    {[kind |-> "throws", items |-> <<>>],
     [kind |-> "false", items |-> <<>>],
     [kind |-> "other", items |-> <<>>]}
    \cup {[kind |-> "array", items |-> a] : a \in Arrays}
\* How a settled list() shows in an invocation's outcome.
ListedAs(result) ==
    IF IsArray(result) /\ \E k \in 1..Len(result.items) : ~IsBackup(result.items[k])
    THEN "array_with_non_Backup"
    ELSE result.kind
CreateResults == {"throws", "void", "Backup"}
DeleteResults == {"throws", "ok"}

\* ---- the pure pieces of cycle() ---------------------------------------------
\* A guard that turns nobody away (the fault C1 and C2 exclude).
GuardNeverRejects(flag) == FALSE
\* `if (this.#in_flight) return false;`
GuardRejects(flag) == flag

\* `this.options.list()`: the arguments list is called with.
ListArgs(l) == <<>>

\* list.find((backup) => !(backup instanceof Backup)): the first element that
\* is not a Backup, or undefined when there is none.
Find(items) ==
    LET bad == {k \in 1..Len(items) : ~IsBackup(items[k])}
    IN  IF bad = {} THEN Undefined ELSE items[Min(bad)]

\* `!Array.isArray(list) || list.find(...)`: the validation throws.
ListInvalid(result) == ~IsArray(result) \/ Truthy(Find(result.items))

\* A core without the short circuit (the fault C6 excludes).
ShortCircuitNever(v, result) == FALSE
\* `list === false` (create_void only; create_Backup has no such branch).
ShortCircuit(v, result) == v = "create_void" /\ result.kind = "false"

\* (a, b) => a.created_at - b.created_at
Compare(a, b) == a.created_at - b.created_at

\* The comparator reads .created_at of both operands: a TypeError on null.
\* sort() compares every element of an array of two or more at least once.
SortThrows(items) == Len(items) >= 2 /\ \E k \in 1..Len(items) : ~Truthy(items[k])

\* A sort that is ascending but puts an element before its equals (the fault
\* C18 excludes).
RECURSIVE SortTiesReversed(_)
SortTiesReversed(items) ==
    IF items = <<>> THEN <<>>
    ELSE LET init == SortTiesReversed(SubSeq(items, 1, Len(items) - 1))
             x == items[Len(items)]
             keep == Cardinality({k \in 1..Len(init) : Compare(init[k], x) < 0})
         IN  SubSeq(init, 1, keep) \o <<x>> \o SubSeq(init, keep + 1, Len(init))

\* [...list].sort(Compare): Array.prototype.sort is stable; computed as a
\* stable insertion sort (each element goes after all those not greater).
RECURSIVE SortByCreatedAt(_)
SortByCreatedAt(items) ==
    IF items = <<>> THEN <<>>
    ELSE LET init == SortByCreatedAt(SubSeq(items, 1, Len(items) - 1))
             x == items[Len(items)]
             keep == Cardinality({k \in 1..Len(init) : Compare(init[k], x) <= 0})
         IN  SubSeq(init, 1, keep) \o <<x>> \o SubSeq(init, keep + 1, Len(init))

\* `!(backup instanceof Backup)` on create's result (create_Backup only).
CreateInvalid(v, result) == v = "create_Backup" /\ result # "Backup"

\* Create's result folded into the list before slicing (the fault C4
\* excludes).
CandidatesWithCreated(snapshot, backup) == <<backup>> \o snapshot
\* The array whose length is counted and which is sliced for deletion: the
\* pre-create snapshot `sorted`, and nothing of what create made.
Candidates(snapshot, backup) == snapshot

\* Off-by-one overflows (the faults C3 and C7 exclude).
OverflowWithoutNew(n, l) == n - l
OverflowPlusTwo(n, l) == n - l + 2
\* sorted.length - this.options.limit + 1
Overflow(n, l) == n - l + 1

\* arr.slice(0, end) for end >= 0
Slice(arr, end) == SubSeq(arr, 1, IF end < Len(arr) THEN end ELSE Len(arr))

\* EventEmitter.emit('error', e) throws e when no 'error' listener is
\* registered; otherwise it calls every listener once.
EmitThrows(n) == n = 0

\* A cycle that creates first and lists afterwards (the fault C21 excludes).
OperationCreateFirst(k) == <<"create", "list", "delete">>[k]
\* The backend operation of the k-th await of cycle(): `this.options.list()`,
\* then `this.options.create()`, then `this.options.delete(...)`.
Operation(k) == <<"list", "create", "delete">>[k]

\* A catch block that swallows the error (the fault C11 excludes).
EmittedNothing(error) == <<>>
\* `this.emit('error', error)`: the 'error' events one failed cycle emits.
Emitted(error) == <<error>>

\* A destroy() that leaves the timer running (the fault C12 excludes).
ClearIntervalKeeps(handle) == handle
\* `clearInterval(this.#interval)`: the handle afterwards.
ClearInterval(handle) == "cleared"

\* A destroy() that also releases the guard of the cycle in flight (the fault
\* C13 excludes).
InFlightResetByDestroy(flag) == FALSE
\* destroy() does not assign #in_flight: the flag afterwards.
InFlightAfterDestroy(flag) == flag

\* ---- JavaScript values the constructors test --------------------------------
\* A value by its type and a measure: a number n is kept as 2n, so that
\* halves are exact (1.5 is 3); a string by its length.
Js(type, v) == [type |-> type, v |-> v]
JsUndefined == Js("undefined", 0)
JsNull == Js("null", 0)
JsNaN == Js("NaN", 0)
JsInfinity == Js("Infinity", 0)
JsNumber(twice) == Js("number", twice)
JsString(len) == Js("string", len)
JsFunction == Js("function", 0)

\* `typeof x`
TypeOf(x) ==
    IF x.type \in {"number", "NaN", "Infinity"} THEN "number"
    ELSE IF x.type = "null" THEN "object"
    ELSE x.type
\* `!x`
Not(x) ==
    \/ x.type \in {"undefined", "null", "NaN"}
    \/ x.type \in {"number", "string"} /\ x.v = 0
\* `x < 1` for x of type number (NaN compares false)
LessThanOne(x) == x.type = "number" /\ x.v < 2

\* `!x || typeof x !== 'number' || x < 1`, the test of interval and of limit
NotNumberFromOne(x) == Not(x) \/ TypeOf(x) # "number" \/ LessThanOne(x)
\* `!f || typeof f !== 'function'`, the test of list, create and delete
NotFunction(f) == Not(f) \/ TypeOf(f) # "function"

\* The checks of `new BackupScheduler(options)` on an options object.
ConstructorThrows(o) ==
    \/ NotNumberFromOne(o.interval)
    \/ NotNumberFromOne(o.limit)
    \/ NotFunction(o.list)
    \/ NotFunction(o.create)
    \/ NotFunction(o.delete)

\* The numbers tried for interval and limit: -1, 0, 0.5, 1, 1.5, 2, ...
Numbers == {JsNumber(k) : k \in -2..(2 * MaxLimit)}
\* The values tried for interval and for limit.
Scalars == Numbers \cup {JsUndefined, JsNull, JsNaN, JsInfinity, JsString(1)}
\* The values tried for list, create and delete.
Methods == {JsFunction, JsUndefined, JsString(1)}
\* The options objects tried.
Options ==
    [interval : {JsNumber(1), JsNumber(2), JsUndefined}, limit : Scalars,
     list : Methods, create : Methods, delete : Methods]
    \cup [interval : Scalars, limit : {JsNumber(2)},
          list : {JsFunction}, create : {JsFunction}, delete : {JsFunction}]
\* The options of a running scheduler that keeps l backups.
OptionsOf(l) ==
    [interval |-> JsNumber(2), limit |-> JsNumber(2 * l),
     list |-> JsFunction, create |-> JsFunction, delete |-> JsFunction]
NoOptions ==
    [interval |-> JsUndefined, limit |-> JsUndefined, list |-> JsUndefined,
     create |-> JsUndefined, delete |-> JsUndefined]

\* A created_at check that tests the type only (the fault C19 excludes).
CreatedAtNotTyped(x) == TypeOf(x) # "number"
\* `!created_at || typeof created_at !== 'number' || created_at < 1`
CreatedAtInvalid(x) == Not(x) \/ TypeOf(x) # "number" \/ LessThanOne(x)
\* `!id || typeof id !== 'string'`
IdInvalid(x) == Not(x) \/ TypeOf(x) # "string"
\* `new Backup(id, created_at)` throws.
BackupThrows(id, created_at) == IdInvalid(id) \/ CreatedAtInvalid(created_at)

\* The values tried as id and as created_at of a new Backup.
Ids == {JsString(n) : n \in 0..2} \cup {JsUndefined, JsNull, JsNumber(2), JsFunction}
Timestamps == Scalars
NoMade == [id |-> JsUndefined, created_at |-> JsUndefined, result |-> "none"]

\* ---- the bundled backends ---------------------------------------------------
\* `list: () => this.list()`, the wrapper both bundled schedulers install as
\* options.list: whatever it is called with, it calls list with nothing.
WrapperArgs(args) == <<>>
\* `count < limit` where limit is list's first parameter: false when the
\* parameter was not passed (a comparison with undefined).
Below(count, args) == args # <<>> /\ count < args[1]
\* A directory: its entries in readdir order, each a "file" or a "dir".
Directories ==
    UNION {[1..n -> {"file", "dir"}] : n \in 0..MaxStore}
\* A bucket: its number of objects.
Buckets == 0..MaxStore
\* What a bundled list returns: false, or the entries it made Backups of.
False == [kind |-> "false", items |-> <<>>]
Listed(items) == [kind |-> "array", items |-> items]
\* The entries of a directory that are regular files, in order.
RECURSIVE Files(_, _)
Files(entries, k) ==
    IF k > Len(entries) THEN <<>>
    ELSE (IF entries[k] = "file" THEN <<k>> ELSE <<>>) \o Files(entries, k + 1)
\* DiskBackupScheduler.list(limit)
DiskList(entries, args) ==
    IF Below(Len(entries), args) THEN False
    ELSE Listed(Files(entries, 1))
\* S3BackupScheduler.list(limit, ContinuationToken) on a bucket of n objects;
\* token is the number of pages already read (0: no ContinuationToken).
RECURSIVE S3List(_, _, _)
S3List(n, args, token) ==
    LET first == token * PageSize
        count == Min({PageSize, n - first})
        more == n > first + count
        backups == [k \in 1..count |-> first + k]
    IN  IF ~more /\ token = 0 /\ Below(count, args) THEN False
        ELSE IF more
        THEN LET more_backups == S3List(n, args, token + 1)
             IN  Listed(backups \o more_backups.items)
        ELSE Listed(backups)
NoStore == [artifacts |-> {}, at_list |-> 0]
NoListing == [backend |-> "none", entries |-> 0, all |-> <<>>, limit |-> 0,
              result |-> False]

\* A constructor that runs the first cycle itself (the fault C16 excludes).
CallbackRunsAtOnce == TRUE
\* `setInterval(() => this.cycle(), interval)` does not run the callback at
\* the call: the first run is one interval later.
CallbackRunsAtSetInterval == FALSE

\* ---- state ---------------------------------------------------------------
VARIABLES
    variant,     \* which BackupScheduler source is running
    limit,       \* options.limit: the count itself under Spec, where
                 \* construction has checked it; the value as passed (Js)
                 \* under SpecConstruct, which is about that check
    options,     \* the object passed to `new BackupScheduler(options)`
    constructed, \* "no" before the constructor runs, then "threw" or "started"
    listing,     \* the one list() of a bundled backend SpecBundled evaluates:
                 \* the store, the limit and what list returned
    store,       \* under SpecFaithful, the backend's namespace: its artifacts
                 \* and their number when the running cycle's list settled;
                 \* elsewhere the backend is arbitrary and this stays empty
    made,        \* the one `new Backup(id, created_at)` SpecBackup evaluates:
                 \* its arguments and whether it threw
    interval,    \* #interval: the setInterval handle, "set" or "cleared"
    destroyed,   \* history: "no" until destroy() is called; then "idle" if
                 \* every cycle now running started after a destroy() call
                 \* made with no cycle in flight, else "busy"
    in_flight,   \* #in_flight
    listeners,   \* number of registered 'error' listeners
    pc,          \* per invocation: where cycle() is suspended
    source,      \* per invocation: "timer" or "manual"
    listed,      \* per invocation: what list settled with
    sorted,      \* per invocation: `sorted`
    created,     \* per invocation: the artifact create persisted
    calls,       \* per invocation: the backend calls made, with arguments
    last         \* outcome of the invocation that returned last, since the
                 \* running cycle (if any) passed the guard

vars == <<variant, limit, options, constructed, made, listing, store, interval, destroyed, in_flight, listeners, pc, source, listed,
          sorted, created, calls, last>>
config == <<variant, limit, options, constructed, made, listing>>
timer == <<interval, destroyed>>
local == <<source, listed, sorted, created>>

NoLast == [guard |-> "none", listed |-> "none", n |-> 0, create |-> "none",
           delete |-> "none", calls |-> <<>>, events |-> <<>>, delivered |-> 0,
           ret |-> "none"]

OpNames(cs) == [k \in 1..Len(cs) |-> cs[k].op]

\* State after `new BackupScheduler(options)` with valid options: the timer
\* is set, no cycle has run, no listener is registered yet.
Init ==
    /\ variant \in Variants
    /\ limit \in Limits
    /\ options = OptionsOf(limit)
    /\ constructed = "started"
    /\ made = NoMade
    /\ listing = NoListing
    /\ store = NoStore
    /\ interval = "set"
    /\ destroyed = "no"
    /\ in_flight = FALSE
    /\ listeners = 0
    /\ pc = [i \in Calls |-> "idle"]
    /\ source = [i \in Calls |-> "none"]
    /\ listed = [i \in Calls |-> "none"]
    /\ sorted = [i \in Calls |-> <<>>]
    /\ created = [i \in Calls |-> Undefined]
    /\ calls = [i \in Calls |-> <<>>]
    /\ last = NoLast

\* ---- leaving cycle() --------------------------------------------------------
\* The slot of invocation i is given back.
Release(i) ==
    /\ pc' = [pc EXCEPT ![i] = "idle"]
    /\ source' = [source EXCEPT ![i] = "none"]
    /\ listed' = [listed EXCEPT ![i] = "none"]
    /\ sorted' = [sorted EXCEPT ![i] = <<>>]
    /\ created' = [created EXCEPT ![i] = Undefined]
    /\ calls' = [calls EXCEPT ![i] = <<>>]

\* What invocation i has done so far.
Summary(i) ==
    [NoLast EXCEPT !.guard = "passed", !.listed = listed[i],
                   !.n = Len(sorted[i]), !.calls = OpNames(calls[i]),
                   !.create = IF pc[i] = "delete" THEN "returned" ELSE "none"]

\* `success = true; ... this.#in_flight = false; return success;`
Succeed(i, sum) ==
    /\ in_flight' = FALSE
    /\ last' = [sum EXCEPT !.ret = "true"]
    /\ Release(i)
    /\ UNCHANGED <<config, timer, listeners>>

\* `catch (error) { this.emit('error', error); }` and the two lines after
\* it, which a throwing emit skips: the promise then rejects with #in_flight
\* left as it is.
Catch(i, error, sum) ==
    /\ IF EmitThrows(listeners)
       THEN /\ UNCHANGED in_flight
            /\ last' = [sum EXCEPT !.events = Emitted(error), !.ret = "rejected"]
       ELSE /\ in_flight' = FALSE
            /\ last' = [sum EXCEPT !.events = Emitted(error),
                                   !.delivered = listeners, !.ret = "false"]
    /\ Release(i)
    /\ UNCHANGED <<config, timer, listeners>>

\* ---- actions -----------------------------------------------------------------
\* The array an invocation suspended at delete passed to it.
DeleteArg(i) == calls[i][Len(calls[i])].args[1]
\* The invocations suspended at an await.
Running == {i \in Calls : pc[i] # "idle"}
\* The lowest free invocation slot (slots are interchangeable).
FreeSlot == Min({i \in Calls : pc[i] = "idle"})

\* cycle(), up to its first await: the guard, then `await this.options.list()`.
Cycle(src) ==
    IF GuardRejects(in_flight)
    THEN /\ last' = [NoLast EXCEPT !.guard = "rejected", !.ret = "false"]
         /\ UNCHANGED <<config, timer, in_flight, listeners, pc, local, calls>>
    ELSE /\ \E i \in Calls : pc[i] = "idle"
         /\ in_flight' = TRUE
         /\ pc' = [pc EXCEPT ![FreeSlot] = "list"]
         /\ source' = [source EXCEPT ![FreeSlot] = src]
         /\ calls' = [calls EXCEPT
                        ![FreeSlot] = <<[op |-> Operation(1), args |-> ListArgs(limit)]>>]
         /\ last' = NoLast
         /\ UNCHANGED <<config, timer, listeners, listed, sorted, created>>

\* The setInterval callback `() => this.cycle()` fires.
TimerTick == interval = "set" /\ Cycle("timer") /\ UNCHANGED store

\* A caller invokes cycle() directly.
ManualCycle == Cycle("manual") /\ UNCHANGED store

\* `await this.options.create()` is reached.
CallCreate(i, kind, snapshot) ==
    /\ pc' = [pc EXCEPT ![i] = "create"]
    /\ listed' = [listed EXCEPT ![i] = kind]
    /\ sorted' = [sorted EXCEPT ![i] = snapshot]
    /\ calls' = [calls EXCEPT ![i] = Append(@, [op |-> Operation(2), args |-> <<>>])]
    /\ UNCHANGED <<config, timer, in_flight, listeners, source, created, last>>

\* list() settles: the short circuit, the validation, the sort.
ListReturns(i, result) ==
    IF result.kind = "throws"
    THEN Catch(i, "list_error", [Summary(i) EXCEPT !.listed = "throws"])
    ELSE IF ShortCircuit(variant, result)
    THEN CallCreate(i, "false", <<>>)
    ELSE IF ListInvalid(result)
    THEN Catch(i, "list_invalid",
               [Summary(i) EXCEPT !.listed = ListedAs(result),
                                  !.n = Len(result.items)])
    ELSE IF SortThrows(result.items)
    THEN Catch(i, "TypeError",
               [Summary(i) EXCEPT !.listed = ListedAs(result),
                                  !.n = Len(result.items)])
    ELSE CallCreate(i, ListedAs(result), SortByCreatedAt(result.items))

\* list() of an arbitrary backend settles, with any result.
ListSettles(i) ==
    /\ pc[i] = "list"
    /\ \E result \in ListResults : ListReturns(i, result)
    /\ UNCHANGED store

\* create() settles: the result check, the overflow, the slice.  A create
\* that returns has persisted one artifact under a name of its own.
CreateReturns(i, result, backup) ==
    LET candidates == Candidates(sorted[i], backup)
        overflow == Overflow(Len(candidates), limit)
    IN  IF result = "throws"
        THEN Catch(i, "create_error", [Summary(i) EXCEPT !.create = "throws"])
        ELSE IF CreateInvalid(variant, result)
        THEN Catch(i, "create_invalid", [Summary(i) EXCEPT !.create = "invalid"])
        ELSE IF listed[i] # "false" /\ overflow > 0
        THEN /\ pc' = [pc EXCEPT ![i] = "delete"]
             /\ created' = [created EXCEPT ![i] = backup]
             /\ calls' = [calls EXCEPT ![i] =
                   Append(@, [op |-> Operation(3),
                              args |-> <<Slice(candidates, overflow)>>])]
             /\ UNCHANGED <<config, timer, in_flight, listeners, source,
                            listed, sorted, last>>
        ELSE Succeed(i, [Summary(i) EXCEPT !.create = "returned"])

\* create() of an arbitrary backend settles; the artifact it made is named
\* after none of the entries list returned.
CreateSettles(i) ==
    /\ pc[i] = "create"
    /\ \E result \in CreateResults, t \in Times :
         CreateReturns(i, result, Backup(Len(sorted[i]) + 1, t))
    /\ UNCHANGED store

\* delete() settles.
DeleteReturns(i, result) ==
    IF result = "throws"
    THEN Catch(i, "delete_error", [Summary(i) EXCEPT !.delete = "throws"])
    ELSE Succeed(i, [Summary(i) EXCEPT !.delete = "returned"])

\* delete() of an arbitrary backend settles.
DeleteSettles(i) ==
    /\ pc[i] = "delete"
    /\ \E result \in DeleteResults : DeleteReturns(i, result)
    /\ UNCHANGED store

\* destroy(): `clearInterval(this.#interval); this.#interval = null;` and
\* nothing else.
Destroy ==
    /\ constructed = "started"
    /\ interval' = ClearInterval(interval)
    /\ destroyed' = IF Running = {} \/ destroyed = "idle" THEN "idle" ELSE "busy"
    /\ in_flight' = InFlightAfterDestroy(in_flight)
    /\ UNCHANGED <<config, store, listeners, pc, local, calls, last>>

\* scheduler.on('error', listener) / scheduler.off('error', listener)
On ==
    /\ listeners < MaxListeners
    /\ listeners' = listeners + 1
    /\ UNCHANGED <<config, store, timer, in_flight, pc, local, calls, last>>

Off ==
    /\ listeners > 0
    /\ listeners' = listeners - 1
    /\ UNCHANGED <<config, store, timer, in_flight, pc, local, calls, last>>

Next ==
    \/ TimerTick
    \/ ManualCycle
    \/ \E i \in Calls : ListSettles(i)
    \/ \E i \in Calls : CreateSettles(i)
    \/ \E i \in Calls : DeleteSettles(i)
    \/ Destroy
    \/ On
    \/ Off

Spec == Init /\ [][Next]_vars

\* ---- construction -------------------------------------------------------
\* Before `new BackupScheduler(options)`: nothing is stored, no timer exists.
InitConstruct ==
    /\ variant \in Variants
    /\ limit = JsUndefined
    /\ options = NoOptions
    /\ constructed = "no"
    /\ made = NoMade
    /\ listing = NoListing
    /\ store = NoStore
    /\ interval = "unset"
    /\ destroyed = "no"
    /\ in_flight = FALSE
    /\ listeners = 0
    /\ pc = [i \in Calls |-> "idle"]
    /\ source = [i \in Calls |-> "none"]
    /\ listed = [i \in Calls |-> "none"]
    /\ sorted = [i \in Calls |-> <<>>]
    /\ created = [i \in Calls |-> Undefined]
    /\ calls = [i \in Calls |-> <<>>]
    /\ last = NoLast

\* `new BackupScheduler(o)`: the checks, then `this.options = options` and
\* `this.#interval = setInterval(...)`.
Construct ==
    /\ constructed = "no"
    /\ \E o \in Options :
         /\ options' = o
         /\ IF ConstructorThrows(o)
            THEN /\ constructed' = "threw"
                 /\ UNCHANGED <<limit, interval, in_flight, pc, source, calls>>
            ELSE /\ constructed' = "started"
                 /\ limit' = o.limit
                 /\ interval' = "set"
                 /\ in_flight' = CallbackRunsAtSetInterval
                 /\ IF CallbackRunsAtSetInterval
                    THEN /\ pc' = [pc EXCEPT ![1] = "list"]
                         /\ source' = [source EXCEPT ![1] = "timer"]
                         /\ calls' = [calls EXCEPT ![1] =
                               <<[op |-> Operation(1), args |-> ListArgs(limit')]>>]
                    ELSE UNCHANGED <<pc, source, calls>>
    /\ UNCHANGED <<variant, made, listing, store, destroyed, listeners, listed, sorted, created,
                   last>>

NextConstruct ==
    \/ Construct
    \/ TimerTick
    \/ Destroy

SpecConstruct == InitConstruct /\ [][NextConstruct]_vars

\* ---- the Backup class ---------------------------------------------------
\* `new Backup(id, created_at)` on arguments of every kind.
NewBackup ==
    /\ made = NoMade
    /\ \E id \in Ids, created_at \in Timestamps :
         made' = [id |-> id, created_at |-> created_at,
                  result |-> IF BackupThrows(id, created_at) THEN "throws"
                             ELSE "Backup"]
    /\ UNCHANGED <<variant, limit, options, constructed, listing, store, timer,
                   in_flight, listeners, pc, local, calls, last>>

SpecBackup == InitConstruct /\ [][NewBackup]_vars

\* ---- cycle()'s list call on a bundled scheduler ---------------------------
\* `await this.options.list()` where options.list is the wrapper of a
\* DiskBackupScheduler over some directory.
DiskCycleList ==
    /\ listing = NoListing
    /\ \E entries \in Directories :
         listing' = [backend |-> "disk", entries |-> Len(entries),
                     all |-> Files(entries, 1), limit |-> limit,
                     result |-> DiskList(entries, WrapperArgs(ListArgs(limit)))]
    /\ UNCHANGED <<variant, limit, options, constructed, made, store, timer, in_flight,
                   listeners, pc, local, calls, last>>

\* The same on an S3BackupScheduler over some bucket.
S3CycleList ==
    /\ listing = NoListing
    /\ \E n \in Buckets :
         listing' = [backend |-> "s3", entries |-> n,
                     all |-> [k \in 1..n |-> k], limit |-> limit,
                     result |-> S3List(n, WrapperArgs(ListArgs(limit)), 0)]
    /\ UNCHANGED <<variant, limit, options, constructed, made, store, timer, in_flight,
                   listeners, pc, local, calls, last>>

NextBundled ==
    \/ DiskCycleList
    \/ S3CycleList

SpecBundled == Init /\ [][NextBundled]_vars

\* ---- a faithful backend ----------------------------------------------------
\* A backend that keeps the contract of list, create and delete over a
\* namespace nothing else writes to; any of its calls may still fail.
\* A name no stored artifact has.
FreshId(artifacts) == Min((1..MaxArtifacts) \ {a.id : a \in artifacts})
\* The artifacts in the order of their names, and in the opposite order.
RECURSIVE ById(_)
ById(artifacts) ==
    IF artifacts = {} THEN <<>>
    ELSE LET a == CHOOSE x \in artifacts : \A y \in artifacts : x.id <= y.id
         IN  <<a>> \o ById(artifacts \ {a})
Reverse(seq) == [k \in 1..Len(seq) |-> seq[Len(seq) + 1 - k]]
\* What list may settle with: every artifact, in either order; false only
\* when there are fewer than l; or a failure.
FaithfulLists(artifacts, l) ==
    {[kind |-> "array", items |-> ById(artifacts)],
     [kind |-> "array", items |-> Reverse(ById(artifacts))],
     [kind |-> "throws", items |-> <<>>]}
    \cup (IF Cardinality(artifacts) < l
          THEN {[kind |-> "false", items |-> <<>>]} ELSE {})

FaithfulListSettles(i) ==
    /\ pc[i] = "list"
    /\ \E result \in FaithfulLists(store.artifacts, limit) : ListReturns(i, result)
    /\ store' = [store EXCEPT !.at_list = Cardinality(store.artifacts)]

\* create fails and adds nothing, or adds exactly one artifact under a fresh
\* name (and then returns it, or returns nothing).
FaithfulCreateSettles(i) ==
    /\ pc[i] = "create"
    /\ \/ /\ CreateReturns(i, "throws", Undefined)
          /\ UNCHANGED store
       \/ /\ Cardinality(store.artifacts) < MaxArtifacts
          /\ \E result \in CreateResults \ {"throws"}, t \in Times :
                LET backup == Backup(FreshId(store.artifacts), t)
                IN  /\ CreateReturns(i, result, backup)
                    /\ store' = [store EXCEPT !.artifacts = @ \cup {backup}]

\* delete fails and removes nothing, or removes exactly the given artifacts.
FaithfulDeleteSettles(i) ==
    /\ pc[i] = "delete"
    /\ \/ /\ DeleteReturns(i, "throws")
          /\ UNCHANGED store
       \/ /\ store' = [store EXCEPT !.artifacts = @ \ Range(DeleteArg(i))]
          /\ DeleteReturns(i, "ok")

NextFaithful ==
    \/ TimerTick
    \/ \E i \in Calls : FaithfulListSettles(i)
    \/ \E i \in Calls : FaithfulCreateSettles(i)
    \/ \E i \in Calls : FaithfulDeleteSettles(i)
    \/ On
    \/ Off

SpecFaithful == Init /\ [][NextFaithful]_vars

\* ---- observers used by the properties ----------------------------------------
AllBackups(s) == \A k \in 1..Len(s) : IsBackup(s[k])

\* ---- properties ----------------------------------------------------------------

\* C1: at most one cycle has passed the entry guard and not yet returned,
\* whatever the interleaving of timer ticks and manual cycle() calls.
C1_SingleFlight == Cardinality(Running) <= 1

\* C1 witness: a cycle is suspended at create and a later invocation has
\* been turned away by the guard.
C1_Witness == \E i \in Calls : pc[i] = "create" /\ last.guard = "rejected"

\* C2: while a cycle is running no other invocation passes the guard; the
\* invocation that is turned away returns false, makes no backend call,
\* emits no error event and leaves the running cycle as it is.
C2_RejectedIsNoOp ==
    [][/\ (Running # {} => \A i \in Calls : pc[i] = "idle" => pc'[i] = "idle")
       /\ (last'.guard = "rejected" /\ last' # last =>
              /\ in_flight /\ in_flight'
              /\ last'.ret = "false" /\ last'.calls = <<>> /\ last'.events = <<>>
              /\ pc' = pc /\ calls' = calls /\ listeners' = listeners)]_vars

\* C2 witness: an invocation was turned away while a cycle is suspended at
\* delete.
C2_Witness ==
    \E i \in Calls : pc[i] = "delete" /\ in_flight /\ last.guard = "rejected"

\* C3: a cycle that listed N Backups and reaches delete passes it exactly
\* N - limit + 1 > 0 entries, all from the snapshot and none newer than any
\* entry it keeps; a successful cycle calls delete (once, after list and
\* create) exactly when N - limit + 1 > 0.
C3_Retention ==
    /\ \A i \in Calls : pc[i] = "delete" /\ AllBackups(sorted[i]) =>
         LET N == Len(sorted[i])
             gone == DeleteArg(i)
             kept == Range(sorted[i]) \ Range(gone)
         IN  /\ {b.id : b \in Range(sorted[i])} = 1..N
             /\ N - limit + 1 > 0
             /\ Len(gone) = N - limit + 1
             /\ Cardinality(Range(gone)) = Len(gone)
             /\ Range(gone) \subseteq Range(sorted[i])
             /\ \A d \in Range(gone), k \in kept : d.created_at <= k.created_at
    /\ last.ret = "true" /\ last.listed = "array" =>
         IF last.n - limit + 1 > 0
         THEN last.calls = <<"list", "create", "delete">>
         ELSE last.calls = <<"list", "create">>

\* C3 witness: three Backups were listed out of age order, and the two
\* oldest are being deleted.
C3_Witness ==
    \E i \in Calls :
        /\ pc[i] = "delete" /\ AllBackups(sorted[i])
        /\ Len(sorted[i]) = 3 /\ Len(DeleteArg(i)) = 2
        /\ sorted[i][1].id # 1

\* C4: what is passed to delete is part of the pre-create snapshot and never
\* holds the backup created in the same cycle, for every limit >= 1.
C4_NewBackupSurvives ==
    \A i \in Calls : pc[i] = "delete" =>
        /\ Range(DeleteArg(i)) \subseteq Range(sorted[i])
        /\ created[i] \notin Range(DeleteArg(i))

\* C4 witness: limit = 1, the whole snapshot of two or more is being deleted
\* and the backup just created is not part of it.
C4_Witness ==
    \E i \in Calls :
        /\ pc[i] = "delete" /\ limit = 1 /\ IsBackup(created[i])
        /\ Len(sorted[i]) >= 2 /\ DeleteArg(i) = sorted[i]

\* C5: every cycle that passed the guard called list with the configured
\* limit as its argument.
C5_ListGetsLimit ==
    \A i \in Running : calls[i][1].op = "list" /\ calls[i][1].args = <<limit>>

\* What a finished cycle shows when its list result made it create without
\* deleting: list and create were called, and the events and the returned
\* value follow from how create settled.
CreatedOnly(sum) ==
    /\ sum.calls = <<"list", "create">>
    /\ sum.delete = "none"
    /\ sum.events = (CASE sum.create = "throws" -> <<"create_error">>
                       [] sum.create = "invalid" -> <<"create_invalid">>
                       [] OTHER -> <<>>)
    /\ sum.ret = (IF sum.create = "returned" THEN "true"
                  ELSE IF sum.delivered > 0 THEN "false" ELSE "rejected")

\* C6 as amended: in the create-returns-nothing core, a cycle whose list
\* returned false calls create exactly once and never delete; if that create
\* returns, no error event is emitted and the cycle returns true, and if it
\* throws, its error is the one event emitted and the cycle does not return
\* true.
C6_ShortCircuit ==
    variant = "create_void" =>
        /\ \A i \in Calls : listed[i] = "false" =>
              pc[i] = "create" /\ OpNames(calls[i]) = <<"list", "create">>
        /\ last.listed = "false" =>
              /\ last.calls = <<"list", "create">>
              /\ last.delete = "none"
              /\ last.create \in {"returned", "throws"}
              /\ last.create = "returned" => last.events = <<>> /\ last.ret = "true"
              /\ last.create = "throws" =>
                    last.events = <<"create_error">> /\ last.ret # "true"

\* C6 witness: a cycle whose list returned false has ended with true.
C6_Witness ==
    variant = "create_void" /\ last.listed = "false" /\ last.ret = "true"

\* C6 as stated: whenever list returned false, create was called once,
\* delete never, no error event was emitted and the cycle returned true.
C6_Original ==
    variant = "create_void" /\ last.listed = "false" =>
        /\ last.calls = <<"list", "create">>
        /\ last.delete = "none"
        /\ last.events = <<>>
        /\ last.ret = "true"

\* A finished cycle whose list returned false, or an array of fewer than
\* limit Backups.
BelowLimit(sum) ==
    /\ sum.guard = "passed"
    /\ sum.listed = "false" \/ (sum.listed = "array" /\ sum.n < limit)

\* C7 as amended: in the create-returns-nothing core, a list result of false
\* and a list result that is an array of fewer than limit Backups give the
\* same cycle: the same create/delete calls, error events and returned
\* value for the same outcome of create.
C7_FalseIsShortArray ==
    variant = "create_void" /\ BelowLimit(last) => CreatedOnly(last)

\* C7 witness: a cycle that listed a non-empty array shorter than limit has
\* ended with true.
C7_Witness ==
    /\ variant = "create_void" /\ last.listed = "array"
    /\ last.n >= 1 /\ last.n < limit /\ last.ret = "true"

\* C7 as stated: the same holds in both variants of the core.
C7_Original == BelowLimit(last) => CreatedOnly(last)

\* C8: when create throws, delete is not called, the error event fires once
\* with the thrown error, the cycle returns false and in_flight is reset (so
\* the next invocation passes the guard).
C8_CreateThrows ==
    last.create = "throws" =>
        /\ last.calls = <<"list", "create">>
        /\ last.events = <<"create_error">>
        /\ last.delivered >= 1
        /\ last.ret = "false"
        /\ ~in_flight

\* C9: the promise cycle() returns never rejects, whatever fails and however
\* many 'error' listeners are registered.
C9_NeverRejects == last.ret # "rejected"

\* C10: in_flight is true exactly while a cycle executes: once the cycle
\* that passed the guard has ended, in_flight is false.
C10_InFlightWhileRunning == in_flight <=> Running # {}

\* What made a finished cycle fail, read off what its backend calls did,
\* or "none" for a cycle in which nothing failed.
Cause(sum) ==
    CASE sum.listed = "throws" -> "list_error"
      [] sum.create = "throws" -> "create_error"
      [] sum.create = "invalid" -> "create_invalid"
      [] sum.delete = "throws" -> "delete_error"
      [] sum.create = "none" /\ sum.listed # "none" /\ sum.calls = <<"list">> ->
            "list_rejected"
      [] OTHER -> "none"

\* C11: a failed cycle emits exactly one 'error' event, carrying the error
\* that made it fail (delivered to every listener registered then); a
\* successful cycle emits none; cycle() returns true exactly when the cycle
\* it ran emitted no error event; an invocation turned away by the guard
\* returns false and emits nothing.
C11_OneErrorPerFailure ==
    /\ last.guard = "passed" =>
          /\ last.ret = "true" <=> last.events = <<>>
          /\ Cause(last) = "none" <=> last.events = <<>>
          /\ Cause(last) \in {"list_error", "create_error", "create_invalid",
                              "delete_error"} => last.events = <<Cause(last)>>
          /\ Cause(last) = "list_rejected" =>
                last.events \in {<<"list_invalid">>, <<"TypeError">>}
          /\ last.events = <<>> => last.delivered = 0
          /\ last.ret = "false" => last.delivered \in 1..MaxListeners
    /\ last.guard = "rejected" => last.ret = "false" /\ last.events = <<>>

\* C11 witness: a cycle failed at delete and its one event reached a
\* listener.
C11_Witness ==
    /\ last.events = <<"delete_error">> /\ last.delivered >= 1
    /\ last.ret = "false"

DeterminedCalls(sum) ==
    IF sum.create = "none" THEN <<"list">>
    ELSE IF sum.create \in {"throws", "invalid"} THEN <<"list", "create">>
    ELSE IF sum.listed # "false" /\ Overflow(sum.n, limit) > 0
    THEN <<"list", "create", "delete">>
    ELSE <<"list", "create">>

\* The cycle's next step, whatever its backend call settles with.
Settles(i) == ListSettles(i) \/ CreateSettles(i) \/ DeleteSettles(i)

\* C13: destroy() does not interrupt a cycle in flight.  The destroy() step
\* changes nothing of the cycle (its position, its locals, its calls, the
\* guard flag, the listeners); after it the cycle still takes every
\* remaining step, makes the backend calls its backend results determine,
\* emits the event its failure determines, and clears in_flight on return,
\* exactly as the same formulas hold for a scheduler never destroyed.
C13_DestroyDoesNotInterrupt ==
    /\ [](\A i \in Running : ENABLED Settles(i))
    /\ [](last.guard = "passed" =>
             /\ last.calls = DeterminedCalls(last)
             /\ Len(last.events) = (IF Cause(last) = "none" THEN 0 ELSE 1)
             /\ last.ret = "true" <=> Cause(last) = "none")
    /\ [][/\ destroyed' # destroyed =>
               UNCHANGED <<in_flight, listeners, pc, local, calls, last>>
          /\ \A i \in Calls :
                pc[i] # "idle" /\ pc'[i] = "idle" =>
                   /\ last'.ret = "rejected" <=> last'.delivered = 0 /\ last'.events # <<>>
                   /\ last'.ret # "rejected" => in_flight' = FALSE]_vars

\* C13 witness: destroy() was called while a cycle was in flight, and that
\* cycle has gone on to delete and returned true.
C13_Witness ==
    /\ destroyed = "busy"
    /\ last.calls = <<"list", "create", "delete">>
    /\ last.ret = "true"
    /\ ~in_flight

\* C14: once destroy() has been called with no cycle in flight, create is
\* never called again, neither by a cycle of the timer nor by one of a
\* manual cycle() call.
C14_NoCreateAfterDestroy ==
    [][destroyed = "idle" =>
          \A i \in Calls :
             Len(calls'[i]) > Len(calls[i]) =>
                calls'[i][Len(calls'[i])].op # "create"]_vars

\* What C15 calls a valid configuration: interval a positive number, limit
\* a positive integer, list, create and delete callable.
PositiveNumber(x) == x.type = "Infinity" \/ (x.type = "number" /\ x.v > 0)
PositiveInteger(x) == x.type = "number" /\ x.v > 0 /\ x.v % 2 = 0
ValidConfiguration(o) ==
    /\ PositiveNumber(o.interval)
    /\ PositiveInteger(o.limit)
    /\ \A f \in {o.list, o.create, o.delete} : f.type = "function"

\* C15: the constructor throws, and starts no timer, for every configuration
\* that is not valid, and succeeds and starts the timer for every other one.
C15_FailFast ==
    constructed # "no" =>
       /\ constructed = "threw" <=> ~ValidConfiguration(options)
       /\ constructed = "threw" => interval = "unset" /\ Running = {}
       /\ constructed = "started" => interval \in {"set", "cleared"}

\* C16: the constructor makes no backend call and runs no cycle; a cycle of
\* the timer starts only by a tick of the set timer, the first one included,
\* and a tick is due exactly while the scheduler is constructed and not
\* destroyed.
C16_FirstCycleAtFirstTick ==
    /\ [](ENABLED TimerTick <=> constructed = "started" /\ destroyed = "no")
    /\ [][/\ constructed' # constructed =>
               /\ Running' = {} /\ ~in_flight'
               /\ \A i \in Calls : calls'[i] = <<>>
          /\ \A i \in Calls :
                source'[i] = "timer" /\ source[i] # "timer" =>
                   /\ constructed = "started" /\ interval = "set"
                   /\ OpNames(calls'[i]) = <<"list">>]_vars

\* C16 witness: the first tick after construction has started the first
\* cycle, which is waiting for list.
C16_Witness ==
    /\ constructed = "started" /\ last = NoLast
    /\ \E i \in Calls : source[i] = "timer" /\ pc[i] = "list"

\* C17: when list returns an array with an element that is not a Backup
\* (null and the other falsy values included), or a value that is neither
\* false nor an array, the cycle fails: one error event is emitted, cycle()
\* returns false, and neither create nor delete is called.
C17_MalformedListIsFatal ==
    /\ \A i \in Calls :
          listed[i] = "array_with_non_Backup" => pc[i] \notin {"create", "delete"}
    /\ last.listed \in {"array_with_non_Backup", "other"} =>
          /\ last.calls = <<"list">>
          /\ Len(last.events) = 1
          /\ last.ret = "false"

\* The position an entry had in list's result (the model names the k-th
\* entry of a result k).
ListPosition(backup) == backup.id

\* C18: the sort of the pre-create snapshot is stable.  The snapshot is
\* list's result reordered, ascending by created_at with equal timestamps in
\* list's order; so it is one fixed order for one list result, and when the
\* cut of a deletion falls inside a group of equal timestamps the entries
\* deleted from the group are those list returned first.
C18_StableSort ==
    \A i \in Calls :
       pc[i] \in {"create", "delete"} /\ AllBackups(sorted[i]) =>
          /\ {ListPosition(sorted[i][k]) : k \in 1..Len(sorted[i])}
                = 1..Len(sorted[i])
          /\ \A j, k \in 1..Len(sorted[i]) :
                j < k =>
                   \/ sorted[i][j].created_at < sorted[i][k].created_at
                   \/ /\ sorted[i][j].created_at = sorted[i][k].created_at
                      /\ ListPosition(sorted[i][j]) < ListPosition(sorted[i][k])
          /\ pc[i] = "delete" =>
                \A d \in Range(DeleteArg(i)) :
                   \A k \in Range(sorted[i]) \ Range(DeleteArg(i)) :
                      d.created_at = k.created_at =>
                         ListPosition(d) < ListPosition(k)

\* C18 witness: the cut of a deletion falls inside a group of equal
\* timestamps that list did not return in one run (an older entry came
\* between them).
C18_Witness ==
    \E i \in Calls :
       /\ pc[i] = "delete" /\ AllBackups(sorted[i])
       /\ LET cut == Len(DeleteArg(i))
          IN  /\ cut < Len(sorted[i])
              /\ sorted[i][cut].created_at = sorted[i][cut + 1].created_at
              /\ ListPosition(sorted[i][cut + 1]) > ListPosition(sorted[i][cut]) + 1

\* A non-empty string; a number that is 1 or more; a number above 0.
NonEmptyString(x) == x.type = "string" /\ x.v > 0
NumberFromOne(x) == x.type = "Infinity" \/ (x.type = "number" /\ x.v >= 2)
StrictlyPositive(x) == x.type = "Infinity" \/ (x.type = "number" /\ x.v > 0)

\* C19: `new Backup(id, created_at)` returns a Backup exactly when id is a
\* non-empty string and created_at is a number that is 1 or more; it throws
\* for every other id and for every other created_at: zero, negative, NaN,
\* not a number, and the positive numbers below 1.
C19_BackupConstruction ==
    made # NoMade =>
       /\ made.result = "Backup" <=>
             NonEmptyString(made.id) /\ NumberFromOne(made.created_at)
       /\ made.result \in {"Backup", "throws"}

\* C19 witness: a Backup with a proper id and created_at 0.5 was tried, and
\* the constructor threw.
C19_Witness ==
    /\ made.id = JsString(1) /\ made.created_at = JsNumber(1)
    /\ made.result = "throws"

\* C19 as stated: every strictly positive created_at with a non-empty string
\* id is accepted, every other pair throws.
C19_Original ==
    made # NoMade =>
       (made.result = "Backup" <=>
           NonEmptyString(made.id) /\ StrictlyPositive(made.created_at))

\* C20: on a bundled scheduler, the list call of a cycle returns false when
\* the store holds fewer entries than limit, and the array of all the
\* store's backups when it holds limit entries or more.
C20_BundledShortCircuit ==
    listing # NoListing =>
       /\ listing.entries < listing.limit => listing.result = False
       /\ listing.entries >= listing.limit =>
             listing.result = Listed(listing.all)

\* The calls a cycle has made when it waits at a given await.
CallsUpTo(at) ==
    CASE at = "list" -> <<"list">>
      [] at = "create" -> <<"list", "create">>
      [] at = "delete" -> <<"list", "create", "delete">>
      [] OTHER -> <<>>

\* C21: within a cycle the backend calls are list, then create, then delete,
\* each at most once.  A cycle waiting for a call has made exactly the calls
\* up to that one; it makes its next call only in the step in which the call
\* it waited for settles; delete is called only once create has returned a
\* persisted artifact; a finished cycle made a prefix of the three calls.
C21_CallOrder ==
    /\ [](\A i \in Calls :
             /\ OpNames(calls[i]) = CallsUpTo(pc[i])
             /\ pc[i] = "delete" => IsBackup(created[i]))
    /\ [](last.guard = "passed" =>
             /\ last.calls \in {CallsUpTo("list"), CallsUpTo("create"),
                                CallsUpTo("delete")}
             /\ Len(last.calls) = 3 => last.create = "returned"
             /\ Len(last.calls) = 1 => last.create = "none")
    /\ [][\A i \in Calls :
             Len(calls'[i]) > Len(calls[i]) =>
                /\ Len(calls'[i]) = Len(calls[i]) + 1
                /\ pc'[i] # pc[i]
                /\ SubSeq(calls'[i], 1, Len(calls[i])) = calls[i]]_vars

\* C21 witness: a cycle has called list, create and delete in that order and
\* waits for delete.
C21_Witness ==
    \E i \in Calls :
       pc[i] = "delete" /\ OpNames(calls[i]) = <<"list", "create", "delete">>

\* C22: in the core whose create must return a Backup, a create that returns
\* anything else fails the cycle after the artifact was made: create has
\* been called and has returned, the error event is emitted, the cycle
\* returns false, and delete is not called whatever the pre-create count.
C22_CreateResultRejected ==
    last.create = "invalid" =>
        /\ variant = "create_Backup"
        /\ last.calls = <<"list", "create">>
        /\ last.events = <<"create_invalid">>
        /\ last.ret = "false"

\* C23: when delete throws, the cycle returns false and emits one error event
\* with the thrown error, makes no further backend call (no second delete,
\* nothing that undoes create), and in_flight is cleared, so that the next
\* invocation passes the guard.
C23_DeleteThrows ==
    last.delete = "throws" =>
        /\ last.calls = <<"list", "create", "delete">>
        /\ last.events = <<"delete_error">>
        /\ last.ret = "false"
        /\ ~in_flight

\* C24: when list throws, neither create nor delete is called in that cycle,
\* exactly one error event carrying the thrown error is emitted, and the
\* cycle returns false.
C24_ListThrows ==
    last.listed = "throws" =>
        /\ last.calls = <<"list">>
        /\ last.events = <<"list_error">>
        /\ last.ret = "false"

\* The number of artifacts in the faithful backend's namespace.
Count == Cardinality(store.artifacts)

\* C25: with a faithful backend, a successful cycle that started with N
\* artifacts ends with exactly min(N + 1, limit) of them, for every N, those
\* above limit included; so after every successful cycle there are at most
\* limit, and between create and delete there are N + 1, which is at most
\* limit + 1 when the cycle started at or below limit.
C25_FaithfulRetention ==
    /\ last.ret = "true" =>
          /\ Count = Min({store.at_list + 1, limit})
          /\ Count <= limit
    /\ \A i \in Calls :
          pc[i] = "delete" =>
             /\ Count = store.at_list + 1
             /\ store.at_list <= limit => Count <= limit + 1

\* C25 witness: a successful cycle that started with more artifacts than
\* limit has ended with exactly limit.
C25_Witness ==
    /\ last.ret = "true"
    /\ store.at_list > limit
    /\ Count = limit

\* C26: for as long as a backend call of the running cycle has not returned,
\* the scheduler stays running: in_flight is true, every step other than
\* that call settling (a timer tick, a manual cycle(), destroy(), a listener
\* change) leaves it true and makes no backend call, every invocation of
\* cycle() among them returns false, and destroy() does not release the flag.
C26_HangingCallBlocks ==
    /\ [](Running # {} => in_flight /\ Cardinality(Running) = 1)
    /\ [][Running # {} /\ pc' = pc =>
             /\ in_flight'
             /\ calls' = calls
             /\ last' # last =>
                   last' = [NoLast EXCEPT !.guard = "rejected", !.ret = "false"]
             /\ destroyed' # destroyed => interval' = "cleared"]_vars

\* C26 witness: a cycle is still waiting for its backend call after destroy()
\* was called and a later invocation was turned away.
C26_Witness ==
    /\ \E i \in Calls : pc[i] = "create"
    /\ destroyed = "busy"
    /\ last.guard = "rejected" /\ last.ret = "false"
    /\ in_flight

====
